---- MODULE Spec2Model ----
(***************************************************************************)
(* A model of the FAISS-backed vector index of rag_chromadb_demo           *)
(* (src/faiss_store/faiss_client.py): the FAISSClient object, the two      *)
(* artifacts it keeps on disk (<name>.index and <name>.pkl) and its        *)
(* operations create_index, add_documents, save_index, load_index,         *)
(* delete_index and search; of the chunker (src/loader/chunker.py); and of *)
(* the ingestion of files (src/ingest.py with the loaders).                *)
(*                                                                         *)
(* Python lists are sequences; list positions are 1-based here and 0-based *)
(* in the source (default ids keep the source's numbering, doc_0, doc_1).  *)
(* A Python dict is a function from keys to values.                        *)
(***************************************************************************)
EXTENDS Integers, Sequences, FiniteSets, TLC

VARIABLES
    index,        \* self.index: None or a faiss.IndexFlatL2
    documents,    \* self.documents
    metadatas,    \* self.metadatas
    ids,          \* self.ids
    dimension,    \* self.dimension
    index_file,   \* the file <persist_directory>/<index_name>.index
    data_file,    \* the file <persist_directory>/<index_name>.pkl
    call,         \* the last call made (on the client or the chunker), with its arguments
    result,       \* how that call ended: returned a value, raised, or the process died
    image,        \* history: the client state written by the last completed save_index
    faults        \* number of I/O failures and crashes so far

vars == <<index, documents, metadatas, ids, dimension, index_file, data_file,
          call, result, image, faults>>

-----------------------------------------------------------------------------
(* Bounds of the model *)

MaxEntries == 3      \* no list of the client grows beyond this (SearchSpec)
MaxStored == 2       \* no list of the client grows beyond this (Spec)
MaxBatch == 2        \* longest list passed to add_documents
MaxK == 2            \* largest n_results passed to search
MaxFaults == 1       \* I/O failures and crashes in one behaviour
EmbDim == 1          \* length of the vectors the embedding provider returns

(* self.dimension as __init__ sets it, and the default of create_index and *)
(* of data.get('dimension', ...) in load_index.                            *)
DefaultDimension == 1536

-----------------------------------------------------------------------------
(* Inputs *)

Texts == {"a", "b"}
Queries == {"a", "q"}
Metas == { [type |-> "txt"], [type |-> "html"] }
IdPool == {"x"}
NoFilter == << >>                      \* where=None (or {}): `if where:` is false
Wheres == { NoFilter, [type |-> "html"], [type |-> "txt", lang |-> "ru"] }
CreateDims == {EmbDim, DefaultDimension}

SeqsUpTo(S, n) == UNION { [1..m -> S] : m \in 0..n }

Min(a, b) == IF a <= b THEN a ELSE b

Range(s) == { s[i] : i \in DOMAIN s }

-----------------------------------------------------------------------------
(* Values *)

None == [kind |-> "None"]
NoFile == [kind |-> "absent"]          \* Path.exists() is false
Corrupt == [kind |-> "corrupt"]        \* a file that exists and cannot be decoded

Returned(v) == [kind |-> "returned", value |-> v]
Raised(e) == [kind |-> "raised", error |-> e]
Crashed == [kind |-> "crashed"]

(* The client's in-memory state *)
Mem == [index |-> index, documents |-> documents, metadatas |-> metadatas,
        ids |-> ids, dimension |-> dimension]

(* The two artifacts on disk *)
Disk == [index_file |-> index_file, data_file |-> data_file]

(* The attributes __init__ sets *)
FreshMem == [index |-> None, documents |-> << >>, metadatas |-> << >>,
             ids |-> << >>, dimension |-> DefaultDimension]

NoImage == [kind |-> "none"]

-----------------------------------------------------------------------------
(* The embedding provider: one vector of EmbDim floats per text, in order. *)

Coord(text) == CASE text = "a" -> 0
                 [] text = "b" -> 2
                 [] OTHER -> 1

Embed(text) == [i \in 1..EmbDim |-> IF i = 1 THEN Coord(text) ELSE 0]

create_openai_embeddings(texts) == [i \in 1..Len(texts) |-> Embed(texts[i])]

-----------------------------------------------------------------------------
(* faiss: the flat L2 index, and its file format *)

IndexFlatL2(d) == [kind |-> "IndexFlatL2", d |-> d, xb |-> << >>]

ntotal(idx) == Len(idx.xb)

(* index.add(x): appends the rows of x *)
IndexAdd(idx, x) == [idx EXCEPT !.xb = idx.xb \o x]

RECURSIVE Flatten(_)
Flatten(rows) == IF rows = << >> THEN << >> ELSE Head(rows) \o Flatten(Tail(rows))

(* faiss.write_index: the header (d, ntotal) and the vectors as one flat array *)
write_index(idx) == [kind |-> "faiss", d |-> idx.d, ntotal |-> ntotal(idx),
                     codes |-> Flatten(idx.xb)]

(* faiss.read_index: cuts the flat array into ntotal rows of d floats *)
read_index(file) ==
    [kind |-> "IndexFlatL2", d |-> file.d,
     xb |-> [r \in 1..file.ntotal |->
                [c \in 1..file.d |-> file.codes[(r - 1) * file.d + c]]]]

RECURSIVE SumSq(_, _, _)
SumSq(q, v, i) == IF i = 0 THEN 0
                  ELSE (q[i] - v[i]) * (q[i] - v[i]) + SumSq(q, v, i - 1)

(* squared Euclidean distance of the query to stored vector number p *)
Dist(idx, q, p) == SumSq(q, idx.xb[p], idx.d)

(* index.search(q, k): the k nearest stored vectors, nearest first, as     *)
(* positions. The order among vectors at equal distance is faiss's choice. *)
IndexSearch(idx, q, k) ==
    { r \in [1..k -> 1..ntotal(idx)] :
        /\ \A i, j \in 1..k : i < j =>
              /\ r[i] # r[j]
              /\ Dist(idx, q, r[i]) <= Dist(idx, q, r[j])
        /\ \A p \in 1..ntotal(idx) :
              (\A i \in 1..k : r[i] # p) =>
                  \A i \in 1..k : Dist(idx, q, r[i]) <= Dist(idx, q, p) }

-----------------------------------------------------------------------------
(* pickle: the dict as a list of (key, value) items *)

(* an image written without the dimension *)
PickleDumpNoDimension(docs, metas, idl, dim) ==
    [kind |-> "pickle",
     items |-> << <<"documents", docs>>, <<"metadatas", metas>>,
                  <<"ids", idl>> >>]

PickleDump(docs, metas, idl, dim) ==
    [kind |-> "pickle",
     items |-> << <<"documents", docs>>, <<"metadatas", metas>>,
                  <<"ids", idl>>, <<"dimension", dim>> >>]

HasKey(file, key) == \E i \in DOMAIN file.items : file.items[i][1] = key

Item(file, key) ==
    file.items[CHOOSE i \in DOMAIN file.items : file.items[i][1] = key][2]

-----------------------------------------------------------------------------
(* Frame helpers *)

SetMem(m) ==
    /\ index' = m.index
    /\ documents' = m.documents
    /\ metadatas' = m.metadatas
    /\ ids' = m.ids
    /\ dimension' = m.dimension

SetDisk(d) ==
    /\ index_file' = d.index_file
    /\ data_file' = d.data_file

Saved(m) == [kind |-> "saved", mem |-> m]

-----------------------------------------------------------------------------
(* save_index, lines 102-112: the two writes, in the order of the code.    *)
(* `stage` says how far the call got:                                      *)
(*   "done"          both files written                                    *)
(*   "before_index"  faiss.write_index failed before touching the file     *)
(*   "during_index"  faiss.write_index stopped part-way                    *)
(*   "before_data"   open(data_path, 'wb') failed, or the process died     *)
(*                   between the two writes                                *)
(*   "during_data"   the .pkl was opened (truncated) and not completed     *)

SaveStages == {"done", "before_index", "during_index", "before_data", "during_data"}

save_index_writes(m, disk, stage) ==
    CASE stage = "before_index" -> disk
      [] stage = "during_index" -> [disk EXCEPT !.index_file = Corrupt]
      [] stage = "before_data"  -> [disk EXCEPT !.index_file = write_index(m.index)]
      [] stage = "during_data"  -> [index_file |-> write_index(m.index),
                                    data_file |-> Corrupt]
      [] OTHER -> [index_file |-> write_index(m.index),
                   data_file |-> PickleDump(m.documents, m.metadatas, m.ids,
                                            m.dimension)]

(* What the history variable remembers after the writes *)
ImageAfter(m, stage) ==
    CASE stage = "done" -> Saved(m)
      [] stage = "before_index" -> image
      [] OTHER -> NoImage

-----------------------------------------------------------------------------
(* Operations of FAISSClient *)

(* __init__: a new client object (a new process) over the same directory *)
init_client ==
    /\ SetMem(FreshMem)
    /\ call' = [name |-> "__init__"]
    /\ result' = Returned(None)
    /\ UNCHANGED <<index_file, data_file, image, faults>>

create_index(d) ==
    /\ SetMem([index |-> IndexFlatL2(d), documents |-> << >>, metadatas |-> << >>,
               ids |-> << >>, dimension |-> d])
    /\ call' = [name |-> "create_index", dimension |-> d]
    /\ result' = Returned(None)
    /\ UNCHANGED <<index_file, data_file, image, faults>>

(* load_index: the assignments happen one by one inside the try block, so  *)
(* an exception leaves the earlier ones in place.                          *)
load_index ==
    LET both == index_file # NoFile /\ data_file # NoFile
        got_index == both /\ index_file # Corrupt
        got_data == got_index /\ data_file # Corrupt
        got_documents == got_data /\ HasKey(data_file, "documents")
        got_metadatas == got_documents /\ HasKey(data_file, "metadatas")
        got_ids == got_metadatas /\ HasKey(data_file, "ids")
    IN  /\ index' = IF got_index THEN read_index(index_file) ELSE index
        /\ documents' = IF got_documents THEN Item(data_file, "documents")
                        ELSE documents
        /\ metadatas' = IF got_metadatas THEN Item(data_file, "metadatas")
                        ELSE metadatas
        /\ ids' = IF got_ids THEN Item(data_file, "ids") ELSE ids
        /\ dimension' = IF got_ids
                        THEN IF HasKey(data_file, "dimension")
                             THEN Item(data_file, "dimension")
                             ELSE DefaultDimension
                        ELSE dimension
        /\ call' = [name |-> "load_index"]
        /\ result' = Returned(got_ids)
        /\ UNCHANGED <<index_file, data_file, image, faults>>

(* save_index called by the user. A crash ends the process: the next thing *)
(* that exists is a new client.                                            *)
save_index(stage, crash) ==
    /\ call' = [name |-> "save_index"]
    /\ IF index = None
       THEN /\ stage = "done" /\ ~crash
            /\ result' = Raised("IndexNotCreated")
            /\ UNCHANGED <<index, documents, metadatas, ids, dimension,
                           index_file, data_file, image, faults>>
       ELSE /\ stage # "done" => faults < MaxFaults
            /\ stage = "done" => ~crash
            /\ SetDisk(save_index_writes(Mem, Disk, stage))
            /\ image' = ImageAfter(Mem, stage)
            /\ faults' = IF stage = "done" THEN faults ELSE faults + 1
            /\ SetMem(IF crash THEN FreshMem ELSE Mem)
            /\ result' = IF stage = "done" THEN Returned(None)
                         ELSE IF crash THEN Crashed ELSE Raised("IOError")

(* delete_index: os.remove may fail; the except clause prints and returns. *)
(*   "done" both removes and the resets ran; "first": the first os.remove  *)
(*   raised; "second": the second os.remove raised.                        *)
DeleteStages == {"done", "first", "second"}

delete_index(stage) ==
    /\ stage # "done" => faults < MaxFaults
    /\ stage = "first" => index_file # NoFile
    /\ stage = "second" => data_file # NoFile
    /\ index_file' = IF stage = "first" THEN index_file ELSE NoFile
    /\ data_file' = IF stage = "done" THEN NoFile ELSE data_file
    /\ SetMem(IF stage = "done"
              THEN [Mem EXCEPT !.index = None, !.documents = << >>,
                               !.metadatas = << >>, !.ids = << >>]
              ELSE Mem)
    /\ image' = IF Disk = [index_file |-> index_file', data_file |-> data_file']
                THEN image ELSE NoImage
    /\ faults' = IF stage = "done" THEN faults ELSE faults + 1
    /\ call' = [name |-> "delete_index"]
    /\ result' = Returned(None)

-----------------------------------------------------------------------------
(* add_documents *)

(* ids=None is [given |-> FALSE]; a list is [given |-> TRUE, value |-> list] *)
NoIds == [given |-> FALSE, value |-> << >>]
GivenIds(l) == [given |-> TRUE, value |-> l]

(* line 192: [f"doc_{i}" for i in range(len(texts))] *)
DefaultIds(texts) == [i \in 1..Len(texts) |-> "doc_" \o ToString(i - 1)]

(* The environment of a call that needs the embedding provider:            *)
(* "ok", "no_key" (no API key given or set), "error" (the request failed)  *)
Providers == {"ok", "no_key", "error"}

(* lines 200-209: the state after the index was created if missing and the *)
(* batch was appended to the index and to the three lists                  *)
(* an add that, finding no index in memory, first takes the one on disk *)
AppendedToImage(m, texts, metas, idl, embeddings) ==
    LET m1 == IF m.index # None THEN m
              ELSE IF index_file.kind = "faiss" /\ data_file.kind = "pickle"
              THEN [index |-> read_index(index_file),
                    documents |-> Item(data_file, "documents"),
                    metadatas |-> Item(data_file, "metadatas"),
                    ids |-> Item(data_file, "ids"),
                    dimension |-> Item(data_file, "dimension")]
              ELSE [index |-> IndexFlatL2(EmbDim), documents |-> << >>,
                    metadatas |-> << >>, ids |-> << >>, dimension |-> EmbDim]
    IN  [m1 EXCEPT !.index = IndexAdd(m1.index, embeddings),
                   !.documents = m1.documents \o texts,
                   !.metadatas = m1.metadatas \o metas,
                   !.ids = m1.ids \o idl]

Appended(m, texts, metas, idl, embeddings) ==
    LET m1 == IF m.index = None
              THEN [index |-> IndexFlatL2(EmbDim), documents |-> << >>,
                    metadatas |-> << >>, ids |-> << >>, dimension |-> EmbDim]
              ELSE m
    IN  [m1 EXCEPT !.index = IndexAdd(m1.index, embeddings),
                   !.documents = m1.documents \o texts,
                   !.metadatas = m1.metadatas \o metas,
                   !.ids = m1.ids \o idl]

add_documents(texts, metas, ids_arg, provider, stage, crash) ==
    LET idl == IF ids_arg.given THEN ids_arg.value ELSE DefaultIds(texts)
        embeddings == create_openai_embeddings(texts)
        \* np.array([]) has no second axis: shape[1] or index.add raises
        bad_shape == texts = << >>
        \* index.add asserts that the rows have the index's dimension
        bad_dim == index # None /\ index.d # EmbDim
        early == IF provider = "no_key" THEN "ValueError"
                 ELSE IF provider = "error" /\ texts # << >> THEN "AddError"
                 ELSE IF bad_shape \/ bad_dim THEN "AddError"
                 ELSE "none"
        m2 == Appended(Mem, texts, metas, idl, embeddings)
    IN  /\ call' = [name |-> "add_documents"]
        /\ provider # "ok" => faults < MaxFaults
        /\ IF early # "none"
           THEN /\ stage = "done" /\ ~crash
                /\ provider = "error" => texts # << >>
                /\ result' = Raised(early)
                /\ faults' = IF provider = "ok" THEN faults ELSE faults + 1
                /\ UNCHANGED <<index, documents, metadatas, ids, dimension,
                               index_file, data_file, image>>
           ELSE /\ stage # "done" => faults < MaxFaults
                /\ stage = "done" => ~crash
                /\ SetDisk(save_index_writes(m2, Disk, stage))
                /\ image' = ImageAfter(m2, stage)
                /\ faults' = IF stage = "done" THEN faults ELSE faults + 1
                /\ SetMem(IF crash THEN FreshMem ELSE m2)
                /\ result' = IF stage = "done" THEN Returned(None)
                             ELSE IF crash THEN Crashed ELSE Raised("AddError")

-----------------------------------------------------------------------------
(* search *)

(* the guard without the ntotal test *)
IsEmptyIndexNoneOnly(idx) == idx = None

(* line 237 *)
IsEmptyIndex(idx) == idx = None \/ ntotal(idx) = 0

(* asking faiss for n_results candidates only *)
CandidateCountNoOverfetch(n_results, nt) == Min(n_results, nt)

(* line 253: the number of candidates asked of faiss *)
CandidateCount(n_results, nt) == Min(n_results * 2, nt)

(* line 268: all(metadata.get(k) == v for k, v in where.items()) *)
Matches(metadata, where) ==
    \A k \in DOMAIN where : k \in DOMAIN metadata /\ metadata[k] = where[k]

(* the loop without its break *)
LoopNeverDone(found, n_results) == FALSE

(* line 276 *)
LoopDone(found, n_results) == found >= n_results

NoResults == [documents |-> << >>, metadatas |-> << >>, distances |-> << >>,
              error |-> FALSE]

(* lines 260-277: the loop over the candidates r, from candidate number i. *)
(* error: self.metadatas[idx] or self.documents[idx] raised IndexError.    *)
RECURSIVE SearchLoop(_, _, _, _, _, _)
SearchLoop(r, q, i, where, n_results, acc) ==
    IF i > Len(r) THEN acc
    ELSE IF r[i] > Len(metadatas) THEN [acc EXCEPT !.error = TRUE]
    ELSE IF DOMAIN where # {} /\ ~Matches(metadatas[r[i]], where)
         THEN SearchLoop(r, q, i + 1, where, n_results, acc)
    ELSE IF r[i] > Len(documents) THEN [acc EXCEPT !.error = TRUE]
    ELSE LET acc2 == [acc EXCEPT
                        !.documents = Append(@, documents[r[i]]),
                        !.metadatas = Append(@, metadatas[r[i]]),
                        !.distances = Append(@, Dist(index, q, r[i]))]
         IN  IF LoopDone(Len(acc2.documents), n_results) THEN acc2
             ELSE SearchLoop(r, q, i + 1, where, n_results, acc2)

(* a search that keeps the text of the query among the stored texts *)
SearchStoringQuery(query, n_results, where, provider) ==
    /\ provider = "ok"
    /\ Len(documents) < MaxEntries
    /\ call' = [name |-> "search", query |-> query, n_results |-> n_results,
                where |-> where]
    /\ documents' = Append(documents, query)
    /\ result' = IF IsEmptyIndex(index) THEN Raised("IndexEmptyOrNotLoaded")
                 ELSE Returned([documents |-> << >>, metadatas |-> << >>,
                                distances |-> << >>])
    /\ UNCHANGED <<index, metadatas, ids, dimension, index_file, data_file,
                   image, faults>>

search(query, n_results, where, provider) ==
    /\ call' = [name |-> "search", query |-> query, n_results |-> n_results,
                where |-> where]
    /\ provider # "ok" => faults < MaxFaults /\ ~IsEmptyIndex(index)
    /\ faults' = IF provider = "ok" THEN faults ELSE faults + 1
    /\ UNCHANGED <<index, documents, metadatas, ids, dimension, index_file,
                   data_file, image>>
    /\ IF IsEmptyIndex(index) THEN result' = Raised("IndexEmptyOrNotLoaded")
       ELSE IF provider = "no_key" THEN result' = Raised("ValueError")
       ELSE IF provider = "error" THEN result' = Raised("SearchError")
       \* index.search asserts that the query has the index's dimension
       ELSE IF index.d # EmbDim THEN result' = Raised("SearchError")
       \* and that k > 0
       ELSE IF CandidateCount(n_results, ntotal(index)) <= 0
            THEN result' = Raised("SearchError")
       ELSE \E r \in IndexSearch(index, Embed(query),
                                 CandidateCount(n_results, ntotal(index))) :
              LET out == SearchLoop(r, Embed(query), 1, where, n_results, NoResults)
              IN  result' = IF out.error THEN Raised("SearchError")
                            ELSE Returned([documents |-> out.documents,
                                           metadatas |-> out.metadatas,
                                           distances |-> out.distances])

-----------------------------------------------------------------------------
(* The specification *)

Init ==
    /\ index = None
    /\ documents = << >>
    /\ metadatas = << >>
    /\ ids = << >>
    /\ dimension = DefaultDimension
    /\ index_file = NoFile
    /\ data_file = NoFile
    /\ call = [name |-> "__init__"]
    /\ result = Returned(None)
    /\ image = NoImage
    /\ faults = 0

(* The arguments of add_documents. The metadata list has one record per    *)
(* text, or (a caller's slip) lacks the last one.                          *)
DropLast(l) == IF l = << >> THEN l ELSE SubSeq(l, 1, Len(l) - 1)

MetaLists(texts, choices) ==
    UNION { {ms, DropLast(ms)} : ms \in [1..Len(texts) -> choices] }

(* The metadata the loaders derive from a file: its type follows the text *)
FileMeta(text) == IF text = "a" THEN [type |-> "txt"] ELSE [type |-> "html"]

FileMetaLists(texts) ==
    LET ms == [i \in 1..Len(texts) |-> FileMeta(texts[i])] IN {ms, DropLast(ms)}

IdArgs(texts) == {NoIds} \cup { GivenIds(l) : l \in [1..Len(texts) -> IdPool] }

(* The lists stay within n entries after a batch is added *)
Fits(n, texts, metas) ==
    /\ Len(documents) + Len(texts) <= n
    /\ Len(metadatas) + Len(metas) <= n
    /\ Len(ids) + Len(texts) <= n

(* Persistence: every operation but search, with failures and crashes *)
Next ==
    \/ init_client
    \/ \E d \in CreateDims : create_index(d)
    \/ load_index
    \/ \E stage \in SaveStages, crash \in BOOLEAN : save_index(stage, crash)
    \/ \E stage \in DeleteStages : delete_index(stage)
    \/ \E texts \in SeqsUpTo(Texts, MaxBatch), provider \in Providers,
          stage \in SaveStages, crash \in BOOLEAN :
          \E metas \in FileMetaLists(texts), ids_arg \in IdArgs(texts) :
             /\ Fits(MaxStored, texts, metas)
             /\ add_documents(texts, metas, ids_arg, provider, stage, crash)

Spec == Init /\ [][Next]_vars

(* Search: the index is built by add_documents with default ids and        *)
(* queried.                                                                *)
NextSearch ==
    \/ \E d \in CreateDims : create_index(d)
    \/ delete_index("done")
    \/ \E texts \in SeqsUpTo(Texts, MaxBatch) :
          \E metas \in MetaLists(texts, Metas) :
             /\ Fits(MaxEntries, texts, metas)
             /\ add_documents(texts, metas, NoIds, "ok", "done", FALSE)
    \/ \E query \in Queries, n_results \in 1..MaxK, where \in Wheres :
          search(query, n_results, where, "ok")

SearchSpec == Init /\ [][NextSearch]_vars

-----------------------------------------------------------------------------
(* Claims about persistence (specification Spec) *)

IsPrefix(s, t) == Len(s) <= Len(t) /\ SubSeq(t, 1, Len(s)) = s

(* What load_index finds on disk: the pair of files, or nothing when one   *)
(* of them is missing (line 81)                                            *)
Restorable(disk) ==
    IF disk.index_file = NoFile \/ disk.data_file = NoFile
    THEN [index_file |-> NoFile, data_file |-> NoFile]
    ELSE disk

(* The pair of files a completed save_index of the current state writes *)
NewImage ==
    [index_file |-> write_index(index),
     data_file |-> PickleDump(documents, metadatas, ids, dimension)]

(* C1: add_documents with an id that is already stored, or repeated within *)
(* the batch (the default ids doc_0.. of two calls with ids=None included) *)
(* fails with a DuplicateId error and leaves the entry count unchanged, so *)
(* that in every reachable state the stored ids are pairwise distinct.     *)
C1_StoredIdsDistinct ==
    \A i, j \in DOMAIN ids : i # j => ids[i] # ids[j]

(* C2: add_documents is all-or-nothing: whenever the call raises, the      *)
(* in-memory index, documents, metadatas and ids are what they were before *)
(* the call; whenever it succeeds, the batch was appended to what was      *)
(* there.                                                                  *)
C2_AddAllOrNothing ==
    [][ call'.name = "add_documents" =>
          /\ result'.kind = "raised" => Mem' = Mem
          /\ result'.kind = "returned" =>
                /\ IsPrefix(documents, documents')
                /\ IsPrefix(metadatas, metadatas')
                /\ IsPrefix(ids, ids')
                /\ ntotal(index') = Len(documents') ]_vars

(* C3: save_index is crash-consistent: if it fails or the process dies at  *)
(* any point of it, the pair of files on disk is either the complete prior *)
(* pair or the complete new pair, never a mixture or a half-written file.  *)
C3_PersistCrashConsistent ==
    [][ (call'.name = "save_index" /\ result'.kind \in {"raised", "crashed"}) =>
          (Restorable(Disk') = Restorable(Disk) \/ Restorable(Disk') = NewImage) ]_vars

(* C4: round trip: load_index after a completed save_index, in the same or *)
(* in a new client over the same files, returns true and yields the saved  *)
(* index: same entry count and dimension and, position by position, the    *)
(* same id, vector, text and metadata.                                     *)
C4_RoundTrip ==
    (call.name = "load_index" /\ image.kind = "saved") =>
        /\ result = Returned(TRUE)
        /\ Mem = image.mem

C4_Witness ==
    /\ call.name = "load_index"
    /\ image.kind = "saved"
    /\ result = Returned(TRUE)
    /\ ntotal(index) = 2
    /\ documents = <<"b", "a">>
    /\ Len(metadatas) = 2
    /\ Len(ids) = 2

(* C5: load_index fails with a CorruptImage error, instead of returning a  *)
(* boolean, whenever both files exist and one of them cannot be decoded.   *)
C5_CorruptImageRaises ==
    ( /\ call.name = "load_index"
      /\ index_file # NoFile
      /\ data_file # NoFile
      /\ (index_file = Corrupt \/ data_file = Corrupt) ) =>
        result.kind = "raised"

(* C6: load_index returns true only if both files are present and agree:   *)
(* the number of vectors in the .index file equals the number of ids, of   *)
(* texts and of metadata records in the .pkl file.                         *)
C6_RestoreNeedsConsistentPair ==
    (call.name = "load_index" /\ result = Returned(TRUE)) =>
        /\ index_file.kind = "faiss"
        /\ data_file.kind = "pickle"
        /\ index_file.ntotal = Len(Item(data_file, "ids"))
        /\ index_file.ntotal = Len(Item(data_file, "documents"))
        /\ index_file.ntotal = Len(Item(data_file, "metadatas"))

(* C7: whenever load_index returns false, the client's index, documents,   *)
(* metadatas, ids and dimension are what they were before the call.        *)
C7_FailedRestoreKeepsMemory ==
    [][ (call'.name = "load_index" /\ result' = Returned(FALSE)) =>
          Mem' = Mem ]_vars

-----------------------------------------------------------------------------
(* Claims about search (specification SearchSpec) *)

(* A where filter is satisfied: every key of it has that value in the      *)
(* entry's metadata.                                                       *)
Satisfies(metadata, where) ==
    \A key \in DOMAIN where : key \in DOMAIN metadata /\ metadata[key] = where[key]

QueryDist(p) == Dist(index, Embed(call.query), p)

(* The returned lists are the text, metadata and distance of the stored    *)
(* entries at positions ps, in that order.                                 *)
IsResultOf(ps) ==
    /\ Len(result.value.documents) = Len(ps)
    /\ Len(result.value.metadatas) = Len(ps)
    /\ Len(result.value.distances) = Len(ps)
    /\ \A i \in DOMAIN ps :
          /\ ps[i] <= Len(documents)
          /\ ps[i] <= Len(metadatas)
          /\ result.value.documents[i] = documents[ps[i]]
          /\ result.value.metadatas[i] = metadatas[ps[i]]
          /\ result.value.distances[i] = QueryDist(ps[i])

(* ps lists, nearest first, the m nearest positions of the set S *)
NearestOf(ps, S, m) ==
    /\ Len(ps) = m
    /\ \A i \in DOMAIN ps : ps[i] \in S
    /\ \A i, j \in DOMAIN ps : i < j =>
          ps[i] # ps[j] /\ QueryDist(ps[i]) <= QueryDist(ps[j])
    /\ \A p \in S \ Range(ps), i \in DOMAIN ps : QueryDist(ps[i]) <= QueryDist(p)

(* C8: a search with a where filter returns exactly the first n_results    *)
(* entries, in ascending distance order, that satisfy the filter among the *)
(* min(2 * n_results, entry count) nearest entries; a matching entry       *)
(* outside those nearest is never returned, even if fewer than n_results   *)
(* results are produced.                                                   *)
C8_FilteredSearch ==
    ( /\ call.name = "search"
      /\ DOMAIN call.where # {}
      /\ result.kind = "returned" ) =>
        \E C \in SUBSET (1..ntotal(index)) :
            /\ Cardinality(C) = Min(2 * call.n_results, ntotal(index))
            /\ \A p \in C, o \in (1..ntotal(index)) \ C : QueryDist(p) <= QueryDist(o)
            /\ LET M == { p \in C : /\ p <= Len(metadatas)
                                    /\ Satisfies(metadatas[p], call.where) }
               IN  \E ps \in SeqsUpTo(M, call.n_results) :
                      /\ NearestOf(ps, M, Min(call.n_results, Cardinality(M)))
                      /\ IsResultOf(ps)

(* the over-fetch limit: fewer than n_results results although another     *)
(* stored entry satisfies the filter                                       *)
C8_Witness ==
    /\ call.name = "search"
    /\ DOMAIN call.where # {}
    /\ result.kind = "returned"
    /\ Len(result.value.documents) < call.n_results
    /\ Len(metadatas) = ntotal(index)
    /\ Cardinality({ p \in 1..ntotal(index) : Satisfies(metadatas[p], call.where) })
          > Len(result.value.documents)

(* C9: a search without filter on an index of n >= 1 entries returns       *)
(* exactly the min(n_results, n) entries nearest to the query, in          *)
(* ascending distance order, each with the text, metadata and distance of  *)
(* one stored entry; never more than n_results.                            *)
C9_UnfilteredSearch ==
    ( /\ call.name = "search"
      /\ DOMAIN call.where = {}
      /\ result.kind = "returned" ) =>
        /\ Len(result.value.documents) <= call.n_results
        /\ \E ps \in SeqsUpTo(1..ntotal(index), call.n_results) :
              /\ NearestOf(ps, 1..ntotal(index), Min(call.n_results, ntotal(index)))
              /\ IsResultOf(ps)

C9_Witness ==
    /\ call.name = "search"
    /\ DOMAIN call.where = {}
    /\ result.kind = "returned"
    /\ ntotal(index) = 3
    /\ call.n_results = 2
    /\ result.value.documents = <<"a", "b">>
    /\ result.value.distances = <<0, 4>>
    /\ documents = <<"b", "b", "a">>

(* C10: search fails with the empty-index error whenever the index has no  *)
(* entries (never created or loaded, freshly created, or deleted); it      *)
(* never returns a result list, empty or not, in those states.             *)
C10_SearchEmptyIndexFails ==
    ( /\ call.name = "search"
      /\ (index = None \/ ntotal(index) = 0) ) =>
        result = Raised("IndexEmptyOrNotLoaded")

C10_Witness ==
    /\ call.name = "search"
    /\ index # None
    /\ ntotal(index) = 0
    /\ index.d = EmbDim
    /\ result = Raised("IndexEmptyOrNotLoaded")

-----------------------------------------------------------------------------
(* The chunker (src/loader/chunker.py). A text is a sequence of characters, *)
(* each a one-character string. The functions are pure: a call is drawn in  *)
(* the initial state and one step runs it.                                  *)

MaxTextLen == 4      \* longest text passed to the chunker
MaxChunkSize == 3    \* largest chunk_size (and overlap) passed to the chunker

Chars == {"a", " ", ".", "\n"}
Whitespace == {" ", "\n"}              \* what str.strip() removes, among Chars
ChunkSizes == 0..MaxChunkSize
Overlaps == (0 - 1)..MaxChunkSize

Max(a, b) == IF a >= b THEN a ELSE b

(* lines 92-101: the separators, from the most to the least important *)
DefaultSeparators ==
    << <<"\n", "\n">>, <<"\n">>, <<".", " ">>, <<"!", " ">>, <<"?", " ">>,
       <<";", " ">>, <<",", " ">>, <<" ">> >>

(* a slice that takes one character more *)
SliceOneMore(text, start, end) == SubSeq(text, start + 1, Min(end + 1, Len(text)))

(* text[start:end] for 0 <= start <= end *)
Slice(text, start, end) == SubSeq(text, start + 1, Min(end, Len(text)))

(* sep occurs in text at position i *)
OccursAt(text, sep, i) ==
    /\ i + Len(sep) - 1 <= Len(text)
    /\ SubSeq(text, i, i + Len(sep) - 1) = sep

(* `separator in text` *)
Contains(text, sep) == \E i \in 1..Len(text) : OccursAt(text, sep, i)

(* text.split(sep): the occurrences of sep are taken from left to right and *)
(* do not overlap; cur is the part being read.                              *)
RECURSIVE SplitFrom(_, _, _, _)
SplitFrom(text, sep, i, cur) ==
    IF i > Len(text) THEN <<cur>>
    ELSE IF OccursAt(text, sep, i)
         THEN <<cur>> \o SplitFrom(text, sep, i + Len(sep), << >>)
         ELSE SplitFrom(text, sep, i + 1, Append(cur, text[i]))

Split(text, sep) == SplitFrom(text, sep, 1, << >>)

(* str.strip() *)
RECURSIVE LStrip(_)
LStrip(text) == IF text # << >> /\ Head(text) \in Whitespace
                THEN LStrip(Tail(text)) ELSE text

RECURSIVE RStrip(_)
RStrip(text) == IF text # << >> /\ text[Len(text)] \in Whitespace
                THEN RStrip(SubSeq(text, 1, Len(text) - 1)) ELSE text

Strip(text) == RStrip(LStrip(text))

(* How a call of the chunker ends. Ended carries, besides the value, the   *)
(* most rounds any fixed-width loop of the call made and the deepest       *)
(* nesting of split_text it reached.                                       *)
Pending == [kind |-> "pending"]
NeverEnds == [kind |-> "running"]
Ended(v, rounds, depth) ==
    [kind |-> "returned", value |-> v, rounds |-> rounds, depth |-> depth]

(* lines 36-43 *)
InvalidParameters(chunk_size, overlap) ==
    chunk_size <= 0 \/ overlap < 0 \/ overlap >= chunk_size

(* advancing by the overlap instead *)
StepByOverlap(chunk_size, overlap) == overlap

(* line 65 *)
Step(chunk_size, overlap) == chunk_size - overlap

(* lines 53-65: the while loop. A loop that has made more rounds than the  *)
(* text has characters is one whose start does not advance: it never ends. *)
RECURSIVE ChunkLoop(_, _, _, _, _, _)
ChunkLoop(text, chunk_size, overlap, start, chunks, rounds) ==
    IF ~(start < Len(text)) THEN Ended(chunks, rounds, 0)
    ELSE IF rounds >= Len(text) THEN NeverEnds
    ELSE ChunkLoop(text, chunk_size, overlap,
                   start + Step(chunk_size, overlap),
                   Append(chunks, Slice(text, start, start + chunk_size)),
                   rounds + 1)

chunk_text(text, chunk_size, overlap) ==
    IF InvalidParameters(chunk_size, overlap) THEN Raised("ValueError")
    ELSE IF Len(text) <= chunk_size THEN Ended(<<text>>, 0, 0)
    ELSE ChunkLoop(text, chunk_size, overlap, 0, << >>, 0)

(* without the early return *)
ShortTextNever(text, chunk_size) == FALSE

(* line 104 *)
ShortText(text, chunk_size) == Len(text) <= chunk_size

(* a part may exceed the chunk by one character *)
PartFitsOffByOne(current_chunk, part_with_sep, chunk_size) ==
    Len(current_chunk) + Len(part_with_sep) <= chunk_size + 1

(* line 132 *)
PartFits(current_chunk, part_with_sep, chunk_size) ==
    Len(current_chunk) + Len(part_with_sep) <= chunk_size

(* line 129: the comparison is by value, with the last part *)
PartWithSep(parts, i, separator) ==
    IF parts[i] # parts[Len(parts)] THEN parts[i] \o separator ELSE parts[i]

(* line 142: separators[separators.index(separator) + 1:] *)
NextSeparators(separators, separator) ==
    LET at == CHOOSE i \in DOMAIN separators :
                 /\ separators[i] = separator
                 /\ \A j \in 1..(i - 1) : separators[j] # separator
    IN  SubSeq(separators, at + 1, Len(separators))

(* lines 110-159. split_text is nested depth deep; a nesting deeper than   *)
(* the separator list is one that never ends. Reassemble is the loop of    *)
(* lines 127-150 from part number i, st its variables result and           *)
(* current_chunk; an exception of chunk_text ends the whole call.          *)
RECURSIVE split_text(_, _, _, _, _)
RECURSIVE Reassemble(_, _, _, _, _, _, _, _)

Reassemble(parts, i, separator, separators, chunk_size, overlap, depth, st) ==
    IF i > Len(parts) THEN st
    ELSE
    LET part_with_sep == PartWithSep(parts, i, separator)
        flushed == IF st.current_chunk # << >>
                   THEN Append(st.value, Strip(st.current_chunk))
                   ELSE st.value
        next_separators == NextSeparators(separators, separator)
        sub == IF next_separators # << >>
               THEN split_text(part_with_sep, next_separators, chunk_size,
                               overlap, depth + 1)
               ELSE chunk_text(part_with_sep, chunk_size, overlap)
    IN  IF PartFits(st.current_chunk, part_with_sep, chunk_size)
        THEN Reassemble(parts, i + 1, separator, separators, chunk_size,
                        overlap, depth,
                        [st EXCEPT !.current_chunk = @ \o part_with_sep])
        ELSE IF Len(part_with_sep) > chunk_size
        THEN IF sub.kind # "returned" THEN sub
             ELSE Reassemble(parts, i + 1, separator, separators, chunk_size,
                             overlap, depth,
                             [kind |-> "returned",
                              value |-> flushed \o sub.value,
                              current_chunk |-> << >>,
                              rounds |-> Max(st.rounds, sub.rounds),
                              depth |-> Max(st.depth, sub.depth)])
        ELSE Reassemble(parts, i + 1, separator, separators, chunk_size,
                        overlap, depth,
                        [st EXCEPT !.value = flushed,
                                   !.current_chunk = part_with_sep])

split_text(text, separators, chunk_size, overlap, depth) ==
    IF depth > Len(DefaultSeparators) THEN NeverEnds
    ELSE IF text = << >> THEN Ended(<< >>, 0, depth)
    ELSE IF Len(text) <= chunk_size THEN Ended(<<text>>, 0, depth)
    ELSE IF \E s \in DOMAIN separators : Contains(text, separators[s])
    THEN LET s == CHOOSE s \in DOMAIN separators :
                     /\ Contains(text, separators[s])
                     /\ \A t \in 1..(s - 1) : ~Contains(text, separators[t])
             separator == separators[s]
             st == Reassemble(Split(text, separator), 1, separator, separators,
                              chunk_size, overlap, depth,
                              [kind |-> "returned", value |-> << >>,
                               current_chunk |-> << >>,
                               rounds |-> 0, depth |-> depth])
         IN  IF st.kind # "returned" THEN st
             ELSE Ended(IF st.current_chunk # << >>
                        THEN Append(st.value, Strip(st.current_chunk))
                        ELSE st.value,
                        st.rounds, st.depth)
    ELSE LET r == chunk_text(text, chunk_size, overlap)
         IN  IF r.kind # "returned" THEN r ELSE Ended(r.value, r.rounds, depth)

(* line 165: [chunk for chunk in chunks if chunk.strip()] *)
RECURSIVE DropBlank(_)
DropBlank(chunks) ==
    IF chunks = << >> THEN << >>
    ELSE IF Strip(Head(chunks)) # << >>
         THEN <<Head(chunks)>> \o DropBlank(Tail(chunks))
         ELSE DropBlank(Tail(chunks))

(* a chunker that starts every chunk but the first with the last overlap  *)
(* characters of the chunk before it                                       *)
ChunkTextSmartOverlapping(text, chunk_size, overlap) ==
    IF ShortText(text, chunk_size) THEN Ended(<<text>>, 0, 0)
    ELSE LET r == split_text(text, DefaultSeparators, chunk_size, overlap, 1)
             c == IF r.kind = "returned" THEN DropBlank(r.value) ELSE << >>
             shared(i) == Min(Max(overlap, 0), Len(c[i]))
         IN  IF r.kind # "returned" THEN r
             ELSE Ended([i \in DOMAIN c |->
                           IF i = 1 THEN c[i]
                           ELSE Slice(c[i - 1], Len(c[i - 1]) - shared(i - 1),
                                      Len(c[i - 1])) \o c[i]],
                        r.rounds, r.depth)

(* chunk_text_smart with separators=None *)
chunk_text_smart(text, chunk_size, overlap) ==
    IF ShortText(text, chunk_size) THEN Ended(<<text>>, 0, 0)
    ELSE LET r == split_text(text, DefaultSeparators, chunk_size, overlap, 1)
         IN  IF r.kind # "returned" THEN r
             ELSE Ended(DropBlank(r.value), r.rounds, r.depth)

(* numbering the segments from 1 *)
ChunkDataOneBased(chunk, i, total, source, doc_type) ==
    [text |-> chunk,
     metadata |-> [source |-> source, type |-> doc_type, chunk_id |-> i + 1,
                   total_chunks |-> total, char_count |-> Len(chunk)]]

(* lines 197-206, i being enumerate's index *)
ChunkData(chunk, i, total, source, doc_type) ==
    [text |-> chunk,
     metadata |-> [source |-> source, type |-> doc_type, chunk_id |-> i,
                   total_chunks |-> total, char_count |-> Len(chunk)]]

create_chunks_with_metadata(text, chunk_size, overlap, source, doc_type) ==
    LET r == chunk_text_smart(text, chunk_size, overlap)
    IN  IF r.kind # "returned" THEN r
        ELSE Ended([i \in 1..Len(r.value) |->
                      ChunkData(r.value[i], i - 1, Len(r.value), source, doc_type)],
                   r.rounds, r.depth)

(* The calls *)
ChunkerFunctions == {"chunk_text", "chunk_text_smart", "create_chunks_with_metadata"}

ChunkerCalls ==
    { [name |-> f, text |-> text, chunk_size |-> chunk_size, overlap |-> overlap] :
        f \in ChunkerFunctions, text \in SeqsUpTo(Chars, MaxTextLen),
        chunk_size \in ChunkSizes, overlap \in Overlaps }

ChunkInit ==
    /\ index = None
    /\ documents = << >>
    /\ metadatas = << >>
    /\ ids = << >>
    /\ dimension = DefaultDimension
    /\ index_file = NoFile
    /\ data_file = NoFile
    /\ call \in ChunkerCalls
    /\ result = Pending
    /\ image = NoImage
    /\ faults = 0

run_chunk_text ==
    /\ call.name = "chunk_text"
    /\ result = Pending
    /\ result' = chunk_text(call.text, call.chunk_size, call.overlap)
    /\ UNCHANGED <<index, documents, metadatas, ids, dimension, index_file,
                   data_file, call, image, faults>>

run_chunk_text_smart ==
    /\ call.name = "chunk_text_smart"
    /\ result = Pending
    /\ result' = chunk_text_smart(call.text, call.chunk_size, call.overlap)
    /\ UNCHANGED <<index, documents, metadatas, ids, dimension, index_file,
                   data_file, call, image, faults>>

run_create_chunks_with_metadata ==
    /\ call.name = "create_chunks_with_metadata"
    /\ result = Pending
    /\ result' = create_chunks_with_metadata(call.text, call.chunk_size,
                                             call.overlap, "a.txt", "txt")
    /\ UNCHANGED <<index, documents, metadatas, ids, dimension, index_file,
                   data_file, call, image, faults>>

NextChunk ==
    \/ run_chunk_text
    \/ run_chunk_text_smart
    \/ run_create_chunks_with_metadata

ChunkSpec == ChunkInit /\ [][NextChunk]_vars

-----------------------------------------------------------------------------
(* Claims about the chunker (specification ChunkSpec) *)

ValidParameters == call.chunk_size > call.overlap /\ call.overlap >= 0

(* the texts a finished call returned: the chunks, or the segments' texts *)
ReturnedTexts ==
    IF call.name = "create_chunks_with_metadata"
    THEN [i \in DOMAIN result.value |-> result.value[i].text]
    ELSE result.value

NoSeparatorIn(chunk) ==
    \A s \in DOMAIN DefaultSeparators : ~Contains(chunk, DefaultSeparators[s])

(* C11: chunking fails with an invalid-parameter error for every text      *)
(* whenever target_size <= 0, overlap < 0 or overlap >= target_size, in    *)
(* chunk_text and also in chunk_text_smart and                             *)
(* create_chunks_with_metadata, whatever the text's length or separators.  *)
C11_InvalidParametersRaise ==
    ( /\ call.name \in ChunkerFunctions
      /\ result # Pending
      /\ ( \/ call.chunk_size <= 0
           \/ call.overlap < 0
           \/ call.overlap >= call.chunk_size ) ) =>
        result = Raised("ValueError")

(* C12: for valid parameters and a text no longer than target_size,        *)
(* chunk_text and chunk_text_smart return one chunk, the whole text        *)
(* unmodified.                                                             *)
C12_ShortTextOneChunk ==
    ( /\ call.name \in {"chunk_text", "chunk_text_smart"}
      /\ result # Pending
      /\ ValidParameters
      /\ Len(call.text) <= call.chunk_size ) =>
        /\ result.kind = "returned"
        /\ result.value = <<call.text>>

C12_Witness ==
    /\ call.name = "chunk_text_smart"
    /\ call.text = <<" ", "a", "\n">>
    /\ call.chunk_size = 3
    /\ call.overlap = 2
    /\ result.kind = "returned"
    /\ result.value = << <<" ", "a", "\n">> >>

(* C13: for valid parameters every chunk chunk_text_smart or chunk_text    *)
(* returns is at most target_size long, unless it is a single atomic part, *)
(* one that contains none of the separators.                               *)
C13_ChunkLengthBounded ==
    ( /\ call.name \in {"chunk_text", "chunk_text_smart"}
      /\ result.kind = "returned"
      /\ ValidParameters ) =>
        \A i \in DOMAIN result.value :
            \/ Len(result.value[i]) <= call.chunk_size
            \/ /\ call.name = "chunk_text_smart"
               /\ NoSeparatorIn(result.value[i])

(* a part longer than the chunk size with no separator left, cut by the    *)
(* fixed-width fallback                                                    *)
C13_Witness ==
    /\ call.name = "chunk_text_smart"
    /\ call.text = <<"a", "a", "a", " ">>
    /\ call.chunk_size = 2
    /\ call.overlap = 0
    /\ result.kind = "returned"
    /\ result.value = << <<"a", "a">>, <<"a", " ">> >>

(* C14: for valid parameters chunking terminates: the fixed-width loop     *)
(* advances its start by the step target_size - overlap >= 1 until it      *)
(* reaches the end of the text, and split_text calls itself only with a    *)
(* shorter separator list, so that its nesting is at most as deep as the   *)
(* separator list is long.                                                 *)
C14_ChunkingTerminates ==
    ( /\ call.name \in ChunkerFunctions
      /\ result # Pending
      /\ ValidParameters ) =>
        /\ Step(call.chunk_size, call.overlap) >= 1
        /\ result.kind = "returned"
        /\ result.depth <= Len(DefaultSeparators)
        /\ result.rounds <= Len(call.text)
        /\ (call.name = "chunk_text" /\ result.rounds > 0) =>
              /\ (result.rounds - 1) * Step(call.chunk_size, call.overlap)
                    < Len(call.text)
              /\ result.rounds * Step(call.chunk_size, call.overlap)
                    >= Len(call.text)

C14_Witness ==
    /\ call.name = "chunk_text_smart"
    /\ ValidParameters
    /\ result.kind = "returned"
    /\ result.depth >= 3
    /\ result.rounds >= 2

(* C15: for valid parameters and any text (the empty string, text of       *)
(* whitespace only and text no longer than target_size included) no chunk  *)
(* returned by the chunker and no segment text of                          *)
(* create_chunks_with_metadata is empty after trimming.                    *)
C15_NoBlankChunk ==
    ( /\ call.name \in ChunkerFunctions
      /\ result.kind = "returned"
      /\ ValidParameters ) =>
        \A i \in DOMAIN ReturnedTexts : Strip(ReturnedTexts[i]) # << >>

(* C16: the chunks chunk_text_smart returns are in order of appearance:    *)
(* each occurs in the source text as a contiguous substring, and the       *)
(* chunks can be given occurrence offsets that do not decrease along the   *)
(* output.                                                                 *)
C16_ChunksInSourceOrder ==
    ( /\ call.name = "chunk_text_smart"
      /\ result.kind = "returned"
      /\ ValidParameters ) =>
        \E offs \in [DOMAIN result.value -> 1..(Len(call.text) + 1)] :
            /\ \A i \in DOMAIN result.value :
                  OccursAt(call.text, result.value[i], offs[i])
            /\ \A i, j \in DOMAIN result.value : i < j => offs[i] <= offs[j]

(* C17 as stated: the i-th segment (0-based) of a call producing n         *)
(* segments has chunk_id = i and total_chunks = n, so chunk_id <           *)
(* total_chunks for every segment, n >= 1, and the chunk ids are exactly   *)
(* 0..n-1.                                                                 *)
C17_SegmentNumberingAtLeastOne ==
    ( /\ call.name = "create_chunks_with_metadata"
      /\ result.kind = "returned"
      /\ ValidParameters ) =>
        /\ Len(result.value) >= 1
        /\ \A i \in DOMAIN result.value :
              /\ result.value[i].metadata.chunk_id = i - 1
              /\ result.value[i].metadata.total_chunks = Len(result.value)

(* C17 (amended): the i-th segment (0-based) of a call producing n         *)
(* segments has chunk_id = i and total_chunks = n, so chunk_id <           *)
(* total_chunks and total_chunks >= 1 for every segment, and the chunk ids *)
(* are exactly 0..n-1; a call may produce no segment at all (n = 0).       *)
C17_SegmentNumbering ==
    ( /\ call.name = "create_chunks_with_metadata"
      /\ result.kind = "returned" ) =>
        /\ \A i \in DOMAIN result.value :
              /\ result.value[i].metadata.chunk_id = i - 1
              /\ result.value[i].metadata.total_chunks = Len(result.value)
              /\ result.value[i].metadata.chunk_id
                    < result.value[i].metadata.total_chunks
              /\ result.value[i].metadata.total_chunks >= 1
        /\ { result.value[i].metadata.chunk_id : i \in DOMAIN result.value }
              = 0..(Len(result.value) - 1)

C17_Witness ==
    /\ call.name = "create_chunks_with_metadata"
    /\ result.kind = "returned"
    /\ Len(result.value) = 3
    /\ result.value[3].metadata.chunk_id = 2
    /\ result.value[1].metadata.total_chunks = 3

(* C18: for every segment of create_chunks_with_metadata, char_count is    *)
(* the length of the segment's text after trimming, also on the short-text *)
(* path and on the fixed-width fallback.                                   *)
C18_CharCountOfTrimmedText ==
    ( /\ call.name = "create_chunks_with_metadata"
      /\ result.kind = "returned"
      /\ ValidParameters ) =>
        \A i \in DOMAIN result.value :
            result.value[i].metadata.char_count
               = Len(Strip(result.value[i].text))

-----------------------------------------------------------------------------
(* Ingestion (src/ingest.py): the files are loaded and cleaned, cut into   *)
(* segments by create_chunks_with_metadata, and the segments of the whole  *)
(* list are added to the vector index in one add_documents.                *)

MaxFiles == 2        \* longest list of file paths given to process_documents
MaxSegments == 6     \* no list of the index grows beyond this (IngestSpec)

(* A path is its directory, the stem of its name and its suffix *)
FilePath(dir, stem, suffix) == [dir |-> dir, stem |-> stem, suffix |-> suffix]

Paths == { FilePath("d1", "a", ".txt"), FilePath("d2", "a", ".txt"),
           FilePath("d1", "b", ".HTML"), FilePath("d1", "c", ".pdf"),
           FilePath("d1", "m", ".txt") }

(* The files on disk: d1/m.txt does not exist *)
FileContent(path) ==
    CASE path = FilePath("d1", "a", ".txt") -> <<"a", " ", " ", "b", "\n">>
      [] path = FilePath("d2", "a", ".txt") -> <<"a", "b">>
      [] path = FilePath("d1", "b", ".HTML") ->
            <<" ", "b", "\n", "\n", "a", ".", " ", "b">>
      [] path = FilePath("d1", "c", ".pdf") -> <<"a">>
      [] OTHER -> NoFile

IngestParameters == { [chunk_size |-> 2, overlap |-> 0],
                      [chunk_size |-> 3, overlap |-> 1],
                      [chunk_size |-> 2, overlap |-> 2] }

(* Path(file_path).name *)
PathName(path) == path.stem \o path.suffix

(* Path(file_path).suffix.lower() *)
SuffixLower(path) == IF path.suffix = ".HTML" THEN ".html" ELSE path.suffix

(* re.sub: every maximal run of at least n characters ch becomes to *)
RECURSIVE RunLength(_, _, _)
RunLength(text, ch, i) ==
    IF i <= Len(text) /\ text[i] = ch THEN 1 + RunLength(text, ch, i + 1) ELSE 0

RECURSIVE Squeeze(_, _, _, _, _)
Squeeze(text, ch, n, to, i) ==
    IF i > Len(text) THEN << >>
    ELSE LET run == RunLength(text, ch, i)
         IN  IF run >= n THEN to \o Squeeze(text, ch, n, to, i + run)
             ELSE IF run > 0
                  THEN SubSeq(text, i, i + run - 1) \o Squeeze(text, ch, n, to, i + run)
                  ELSE <<text[i]>> \o Squeeze(text, ch, n, to, i + 1)

(* '\n'.join(lines) *)
RECURSIVE Join(_, _)
Join(lines, sep) ==
    IF lines = << >> THEN << >>
    ELSE IF Len(lines) = 1 THEN lines[1]
    ELSE lines[1] \o sep \o Join(Tail(lines), sep)

(* [line.strip() for line in text.split('\n')] without the empty lines *)
RECURSIVE StrippedLines(_)
StrippedLines(lines) ==
    IF lines = << >> THEN << >>
    ELSE IF Strip(Head(lines)) # << >>
         THEN <<Strip(Head(lines))>> \o StrippedLines(Tail(lines))
         ELSE StrippedLines(Tail(lines))

(* txt_loader.clean_text *)
clean_text(text) ==
    LET t1 == Squeeze(text, " ", 1, <<" ">>, 1)
        t2 == Squeeze(t1, "\n", 3, <<"\n", "\n">>, 1)
        lines == StrippedLines(Split(t2, <<"\n">>))
    IN  Strip(Join(lines, <<"\n">>))

(* html_loader.clean_html_text *)
clean_html_text(text) ==
    LET lines == StrippedLines(Split(text, <<"\n">>))
        t1 == Join(lines, <<"\n">>)
        t2 == Squeeze(t1, " ", 1, <<" ">>, 1)
        t3 == Squeeze(t2, "\n", 3, <<"\n", "\n">>, 1)
    IN  Strip(t3)

(* ingest.load_document. The .html files of the model hold no markup, so   *)
(* that soup.get_text() is their content.                                  *)
load_document(path) ==
    IF SuffixLower(path) = ".txt"
    THEN IF FileContent(path) = NoFile THEN Raised("FileNotFoundError")
         ELSE Returned([text |-> clean_text(FileContent(path)), doc_type |-> "txt"])
    ELSE IF SuffixLower(path) \in {".html", ".htm"}
    THEN IF FileContent(path) = NoFile THEN Raised("FileNotFoundError")
         ELSE Returned([text |-> clean_html_text(FileContent(path)),
                        doc_type |-> "html"])
    ELSE Raised("ValueError")

(* an id made of the segment number alone *)
ChunkIdOfSegmentOnly(doc_counter, chunk_id) == "chunk_" \o ToString(chunk_id)

(* line 100: f"doc_{doc_counter}_chunk_{chunk_id}" *)
ChunkIdOf(doc_counter, chunk_id) ==
    "doc_" \o ToString(doc_counter) \o "_chunk_" \o ToString(chunk_id)

(* lines 76-108: the loop over the files from file number i; acc holds     *)
(* all_chunks, all_metadatas, all_ids and doc_counter. A file whose        *)
(* loading or chunking raises is skipped.                                  *)
RECURSIVE ProcessFrom(_, _, _, _, _)
ProcessFrom(file_paths, i, chunk_size, overlap, acc) ==
    IF i > Len(file_paths) THEN acc
    ELSE
    LET path == file_paths[i]
        loaded == load_document(path)
        chunks_with_meta ==
            IF loaded.kind # "returned" THEN loaded
            ELSE create_chunks_with_metadata(loaded.value.text, chunk_size, overlap,
                                             PathName(path), loaded.value.doc_type)
    IN  IF chunks_with_meta.kind # "returned"
        THEN ProcessFrom(file_paths, i + 1, chunk_size, overlap, acc)
        ELSE LET segs == chunks_with_meta.value
             IN  ProcessFrom(file_paths, i + 1, chunk_size, overlap,
                    [all_chunks |-> acc.all_chunks \o
                        [k \in DOMAIN segs |-> segs[k].text],
                     all_metadatas |-> acc.all_metadatas \o
                        [k \in DOMAIN segs |-> segs[k].metadata],
                     all_ids |-> acc.all_ids \o
                        [k \in DOMAIN segs |->
                            ChunkIdOf(acc.doc_counter, segs[k].metadata.chunk_id)],
                     doc_counter |-> acc.doc_counter + 1])

process_documents(file_paths, chunk_size, overlap) ==
    ProcessFrom(file_paths, 1, chunk_size, overlap,
                [all_chunks |-> << >>, all_metadatas |-> << >>, all_ids |-> << >>,
                 doc_counter |-> 0])

(* ingest.main, lines 264-284: process_documents, then the segments are    *)
(* added to the index; with no segment the script exits.                   *)
ingest(file_paths, chunk_size, overlap) ==
    \E out \in {process_documents(file_paths, chunk_size, overlap)} :
        /\ out.all_chunks # << >>
        /\ Fits(MaxSegments, out.all_chunks, out.all_metadatas)
        /\ add_documents(out.all_chunks, out.all_metadatas, GivenIds(out.all_ids),
                         "ok", "done", FALSE)

NextIngest ==
    \/ \E file_paths \in SeqsUpTo(Paths, MaxFiles), p \in IngestParameters :
          ingest(file_paths, p.chunk_size, p.overlap)
    \/ delete_index("done")

IngestSpec == Init /\ [][NextIngest]_vars

-----------------------------------------------------------------------------
(* Claims about ingestion (specification IngestSpec) *)

(* C19: after any sequence of ingestions, all stored segments with the     *)
(* same source carry the same total_chunks, also when two different files  *)
(* have the same base name and so the same source.                         *)
C19_SameSourceSameTotal ==
    \A i, j \in DOMAIN metadatas :
        metadatas[i].source = metadatas[j].source =>
            metadatas[i].total_chunks = metadatas[j].total_chunks

-----------------------------------------------------------------------------
(* Claims about deletion (specification Spec) *)

(* FAISSClient.get_index_stats, lines 287-302, of the client state m *)
get_index_stats(m) ==
    IF m.index = None
    THEN [name |-> "documents", document_count |-> 0]
    ELSE [name |-> "documents", document_count |-> Len(m.documents),
          vector_count |-> ntotal(m.index), dimension |-> m.dimension]

(* C20: delete_index removes the in-memory index, documents, metadatas and *)
(* ids and both files if present, and is idempotent: called twice, or on a *)
(* client with no index and no image, it yields the same state as called   *)
(* once and never raises; after it load_index returns false and            *)
(* get_index_stats reports zero entries.                                   *)
C20_DeleteIdempotent ==
    [][ /\ call'.name = "delete_index" =>
              /\ result' = Returned(None)
              /\ index' = None
              /\ documents' = << >>
              /\ metadatas' = << >>
              /\ ids' = << >>
              /\ index_file' = NoFile
              /\ data_file' = NoFile
              /\ get_index_stats(Mem').document_count = 0
              /\ call.name = "delete_index" => (Mem' = Mem /\ Disk' = Disk)
        /\ (call.name = "delete_index" /\ call'.name = "load_index") =>
              result' = Returned(FALSE) ]_vars

-----------------------------------------------------------------------------
(* Claims about the stored vectors (specification Spec) *)

(* C21: every vector stored in an index has the length of the index's      *)
(* dimension, which add_documents never changes once the index exists;     *)
(* add_documents with vectors of another length than the existing index's  *)
(* dimension fails and leaves the index unchanged; and the dimension the   *)
(* client reports equals the dimension of the index it holds, also after   *)
(* load_index.                                                             *)
C21_DimensionFixed ==
    [][ /\ index' # None =>
              /\ \A p \in DOMAIN index'.xb : Len(index'.xb[p]) = index'.d
              /\ get_index_stats(Mem').dimension = index'.d
        /\ (call'.name = "add_documents" /\ index # None /\ index' # None) =>
              index'.d = index.d
        /\ (call'.name = "add_documents" /\ index # None /\ index.d # EmbDim) =>
              /\ result'.kind = "raised"
              /\ Mem' = Mem ]_vars

-----------------------------------------------------------------------------
(* Claims about the life of the index (specification Spec) *)

(* the vectors of the client state m *)
Vectors(m) == IF m.index = None THEN << >> ELSE m.index.xb

(* the entries lst[from + 1], lst[from + 2], ... *)
After(lst, from) == SubSeq(lst, from + 1, Len(lst))

(* C22: the index is append-only. On one client the number of entries      *)
(* (texts, and vectors) grows only by add_documents appending a whole      *)
(* batch, or by load_index restoring the persisted index, and it never     *)
(* shrinks except to nothing, by a full deletion (delete_index, or         *)
(* create_index starting an empty index); and an add_documents that        *)
(* succeeds leaves every stored id, vector, text and metadata where it     *)
(* was and appends the batch after them in batch order.                    *)
C22_AppendOnly ==
    [][ call'.name # "__init__" =>
          /\ Len(documents') < Len(documents) => Len(documents') = 0
          /\ Len(Vectors(Mem')) < Len(Vectors(Mem)) => Len(Vectors(Mem')) = 0
          /\ ( \/ Len(documents') > Len(documents)
               \/ Len(Vectors(Mem')) > Len(Vectors(Mem)) ) =>
                 call'.name \in {"add_documents", "load_index"}
          /\ (call'.name = "add_documents" /\ result'.kind = "returned") =>
                /\ IsPrefix(Vectors(Mem), Vectors(Mem'))
                /\ IsPrefix(documents, documents')
                /\ IsPrefix(metadatas, metadatas')
                /\ IsPrefix(ids, ids')
                /\ Len(documents') > Len(documents)
                /\ Len(After(ids', Len(ids))) = Len(After(documents', Len(documents)))
                /\ After(Vectors(Mem'), Len(Vectors(Mem)))
                      = create_openai_embeddings(After(documents', Len(documents))) ]_vars

-----------------------------------------------------------------------------
(* Claims about what search leaves alone (specification SearchSpec) *)

-----------------------------------------------------------------------------
(* Claims about the separator split and the fixed-width windows            *)
(* (specification ChunkSpec)                                               *)

(* the separator split_text cuts the text at: the first of the list that   *)
(* occurs in it                                                            *)
FirstSeparatorIn(text) ==
    DefaultSeparators[CHOOSE s \in DOMAIN DefaultSeparators :
                         /\ Contains(text, DefaultSeparators[s])
                         /\ \A t \in 1..(s - 1) : ~Contains(text, DefaultSeparators[t])]

(* C25: in the separator split of chunk_text_smart every part except the   *)
(* one at the last position gets its separator back before the parts are   *)
(* reassembled, and the last one does not, so that the pieces concatenated *)
(* are the text that was split; also when an earlier part has the content  *)
(* of the last part or is empty.                                           *)
C25_PartsKeepSeparator ==
    ( /\ call.name = "chunk_text_smart"
      /\ result.kind = "returned"
      /\ ValidParameters
      /\ Len(call.text) > call.chunk_size
      /\ ~NoSeparatorIn(call.text) ) =>
        LET separator == FirstSeparatorIn(call.text)
            parts == Split(call.text, separator)
        IN  /\ \A i \in 1..(Len(parts) - 1) :
                  PartWithSep(parts, i, separator) = parts[i] \o separator
            /\ PartWithSep(parts, Len(parts), separator) = parts[Len(parts)]
            /\ Flatten([i \in DOMAIN parts |-> PartWithSep(parts, i, separator)])
                  = call.text

(* the number of windows: the i = 0, 1, ... with i * step < len *)
WindowCount(len, step) == Cardinality({ i \in 0..len : i * step < len })

(* C26: for valid parameters and a text longer than chunk_size, chunk_text *)
(* returns exactly the windows text[i*step : i*step + chunk_size] for      *)
(* i = 0, 1, ... while i*step < len(text), with step = chunk_size -        *)
(* overlap: consecutive windows start step characters apart, every full    *)
(* window that is not the last ends with the overlap characters its        *)
(* successor starts with, and every character of the text is in a window.  *)
C26_FixedWidthWindows ==
    ( /\ call.name = "chunk_text"
      /\ result # Pending
      /\ ValidParameters
      /\ Len(call.text) > call.chunk_size ) =>
        LET text == call.text
            size == call.chunk_size
            step == call.chunk_size - call.overlap
            n == WindowCount(Len(text), step)
            w == result.value
        IN  /\ result.kind = "returned"
            /\ Len(w) = n
            /\ \A i \in 1..n :
                  /\ Len(w[i]) = Min(size, Len(text) - (i - 1) * step)
                  /\ \A k \in 1..Len(w[i]) : w[i][k] = text[(i - 1) * step + k]
            /\ \A i \in 1..(n - 1) :
                  Len(w[i]) = size =>
                     /\ Len(w[i + 1]) >= call.overlap
                     /\ SubSeq(w[i], step + 1, size) = SubSeq(w[i + 1], 1, call.overlap)
            /\ \A p \in 1..Len(text) :
                  \E i \in 1..n : (i - 1) * step < p /\ p <= (i - 1) * step + Len(w[i])

(* four windows one character apart, each sharing two with the next *)
C26_Witness ==
    /\ call.name = "chunk_text"
    /\ call.text = <<"a", " ", ".", "\n">>
    /\ call.chunk_size = 3
    /\ call.overlap = 2
    /\ result.kind = "returned"
    /\ result.value = << <<"a", " ", ".">>, <<" ", ".", "\n">>, <<".", "\n">>,
                         <<"\n">> >>

(* s is t with some characters left out *)
RECURSIVE SubsequenceFrom(_, _, _, _)
SubsequenceFrom(s, t, i, j) ==
    IF i > Len(s) THEN TRUE
    ELSE IF j > Len(t) THEN FALSE
    ELSE IF s[i] = t[j] THEN SubsequenceFrom(s, t, i + 1, j + 1)
    ELSE SubsequenceFrom(s, t, i, j + 1)

IsSubsequence(s, t) == SubsequenceFrom(s, t, 1, 1)

-----------------------------------------------------------------------------
(* Claims about the parallel lists and the persisted image                 *)
(* (specification Spec)                                                    *)

(* C27: in every reachable state of the client the parallel stores are     *)
(* aligned: documents, metadatas and ids are each as long as the index has *)
(* vectors (and empty while there is no index), so that position i of each *)
(* list describes vector i.                                                *)
C27_StoresAligned ==
    /\ Len(documents) = Len(Vectors(Mem))
    /\ Len(metadatas) = Len(Vectors(Mem))
    /\ Len(ids) = Len(Vectors(Mem))
    /\ get_index_stats(Mem).document_count = Len(Vectors(Mem))
-----------------------------------------------------------------------------
(* process_documents as a function of its arguments: a call is drawn in    *)
(* the initial state and one step runs it (specification ProcessSpec).     *)

ProcessCalls ==
    { [name |-> "process_documents", file_paths |-> file_paths,
       chunk_size |-> p.chunk_size, overlap |-> p.overlap] :
        file_paths \in SeqsUpTo(Paths, MaxFiles), p \in IngestParameters }

ProcessInit ==
    /\ index = None
    /\ documents = << >>
    /\ metadatas = << >>
    /\ ids = << >>
    /\ dimension = DefaultDimension
    /\ index_file = NoFile
    /\ data_file = NoFile
    /\ call \in ProcessCalls
    /\ result = Pending
    /\ image = NoImage
    /\ faults = 0

run_process_documents(file_paths, chunk_size, overlap) ==
    \E out \in {process_documents(file_paths, chunk_size, overlap)} :
        /\ call = [name |-> "process_documents", file_paths |-> file_paths,
                   chunk_size |-> chunk_size, overlap |-> overlap]
        /\ result = Pending
        /\ result' = Returned(out)
        /\ UNCHANGED <<index, documents, metadatas, ids, dimension, index_file,
                       data_file, call, image, faults>>

NextProcess ==
    \E file_paths \in SeqsUpTo(Paths, MaxFiles), p \in IngestParameters :
       run_process_documents(file_paths, p.chunk_size, p.overlap)

ProcessSpec == ProcessInit /\ [][NextProcess]_vars

(* the segments of one file, or how loading or chunking it failed *)
SegmentsOf(path) ==
    LET loaded == load_document(path)
    IN  IF loaded.kind # "returned" THEN loaded
        ELSE create_chunks_with_metadata(loaded.value.text, call.chunk_size,
                                         call.overlap, PathName(path),
                                         loaded.value.doc_type)

(* the files of the call that were loaded and chunked, in order *)
ProcessedFiles ==
    SelectSeq(call.file_paths, LAMBDA path : SegmentsOf(path).kind = "returned")

(* C30: process_documents returns three lists of equal length whose ids    *)
(* are pairwise distinct. A file whose loading or chunking fails           *)
(* contributes nothing and takes no document number: the lists hold, file  *)
(* after file, the segments of the files that were processed, and the ids  *)
(* are doc_{d}_chunk_{c} with d counting those files from 0 without gaps   *)
(* and c running over 0..total_chunks-1 of the file.                       *)
C30_ProcessDocumentsIds ==
    ( /\ call.name = "process_documents"
      /\ result.kind = "returned" ) =>
        LET out == result.value
            segs(d) == SegmentsOf(ProcessedFiles[d]).value
        IN  /\ Len(out.all_chunks) = Len(out.all_ids)
            /\ Len(out.all_metadatas) = Len(out.all_ids)
            /\ \A i, j \in DOMAIN out.all_ids :
                  i # j => out.all_ids[i] # out.all_ids[j]
            /\ out.all_ids =
                  Flatten([d \in DOMAIN ProcessedFiles |->
                             [c \in 1..Len(segs(d)) |->
                                "doc_" \o ToString(d - 1) \o "_chunk_"
                                       \o ToString(c - 1)]])
            /\ out.all_chunks =
                  Flatten([d \in DOMAIN ProcessedFiles |->
                             [c \in 1..Len(segs(d)) |-> segs(d)[c].text]])
            /\ \A k \in DOMAIN out.all_metadatas :
                  /\ out.all_metadatas[k].chunk_id < out.all_metadatas[k].total_chunks
                  /\ out.all_metadatas[k].char_count = Len(out.all_chunks[k])

(* a missing file between two files that are processed: its number goes to *)
(* the file after it                                                       *)
C30_Witness ==
    /\ call.name = "process_documents"
    /\ call.file_paths = << FilePath("d1", "m", ".txt"), FilePath("d1", "a", ".txt") >>
    /\ call.chunk_size = 2
    /\ result.kind = "returned"
    /\ result.value.all_ids = <<"doc_0_chunk_0", "doc_0_chunk_1">>
    /\ result.value.all_chunks = << <<"a">>, <<"b">> >>

====
